---- MODULE Spec2Model ----
(***************************************************************************)
(* A model of scripts/get_batch_status.py: the batch status report.        *)
(*                                                                         *)
(* The script is sequential.  Each function is modelled as a small state   *)
(* machine whose steps are the loop iterations of the function, one call   *)
(* of the batch or logs service per step.  What a service answers is an    *)
(* input, chosen at the step that makes the call.  An exception that no    *)
(* handler of the script catches ends the run in pc = "raised".            *)
(*                                                                         *)
(* SpecListQueue follows the jobs of the queue as well: list_jobs answers  *)
(* from the statuses the jobs have at the moment of each call, and jobs    *)
(* change status between the calls.                                        *)
(*                                                                         *)
(* Text is modelled as a sequence of words; `w in str(x)` of the script is *)
(* membership of the word w in the words of the printed form of x, which   *)
(* holds the keys of x as well as its string values.                       *)
(***************************************************************************)
EXTENDS Integers, Sequences, FiniteSets, TLC

VARIABLES
    pc,                 \* where the run is
    exception,          \* the exception that ended the run, or "none"
    raised_in,          \* the function the exception escaped from first
    \* the batch service
    batch_jobs,         \* the jobs of the queue: status and creation time of each
    \* get_batch_job_id_list
    status_idx,         \* position of job_status in status_needed
    list_response,      \* response of the last list_jobs call
    nextToken,
    temp_job_ids,
    job_id_list,
    extra_pages,        \* continuation pages requested so far in the run
    list_failed,        \* a list_jobs call has raised
    \* get_job_details
    job_idx,            \* jobs of job_id_list the loop has gone through
    describe_response,  \* the local `response`: Unbound before the first answer
    final_list,
    outcomes,           \* per job gone through: "ok", "describe_failed", "parse_failed"
    batch_job_details_df,
    \* get_resource_usage
    cloudwatch_log_group_name,  \* the -l argument: a text, or None
    cloudwatch_query_interval,  \* the -i argument, in seconds
    current_epoch_time,         \* the time read at line 169, in seconds
    epoch_start,
    epoch_end,
    query_response,     \* the local `response` of the poll loop
    final_output,
    queried,            \* the windows start_query was called with, in order
    failed_window,      \* the window in which the try block failed, 0 if none
    container_resource_consumption_df,
    \* get_summaries and main
    job_modules_df,     \* the rows of configs/job_names_and_modules.csv
    output_df,
    submodule_summary_df,
    highlevel_summary_df,
    files               \* the CSV files written so far

serviceVars == <<batch_jobs>>

listVars == <<status_idx, list_response, nextToken, temp_job_ids, job_id_list,
              extra_pages, list_failed>>

detailVars == <<job_idx, describe_response, final_list, outcomes,
                batch_job_details_df>>

usageVars == <<cloudwatch_log_group_name, cloudwatch_query_interval,
               current_epoch_time, epoch_start, epoch_end, query_response,
               final_output, queried, failed_window,
               container_resource_consumption_df>>

mainVars == <<job_modules_df, output_df, submodule_summary_df,
              highlevel_summary_df, files>>

vars == <<pc, exception, raised_in, serviceVars, listVars, detailVars, usageVars, mainVars>>

----------------------------------------------------------------------------
(* Bounds of the inputs.                                                   *)

MaxPageLen == 1         \* entries of one page of list_jobs
MaxExtraPages == 1      \* continuation pages the service hands out in a run
batch_start_time == 2   \* the -s argument, in seconds since the epoch
MaxTableRows == 2       \* rows of the job table handed to get_summaries
MaxMappingRows == 2     \* rows of the job-to-module mapping
MaxJobs == 2            \* length of the job id list handed to get_job_details
MaxSpan == 3            \* seconds between the batch start and the current time
MaxWindows == 2         \* windows followed when the interval is 0 (the loop has no end then)
MaxRecords == 2         \* records of one answer of get_query_results

JobIds == {"j1", "j2"}

----------------------------------------------------------------------------
(* Helpers.                                                                *)

Range(s) == {s[i] : i \in 1..Len(s)}

SeqsUpTo(S, n) == UNION {[1..k -> S] : k \in 0..n}

\* Python's None, and a key that a response does not hold.
None == "None"
Absent == "Absent"
\* The truth value of a text or None, as `not` of line 133 and `and` of
\* line 265 take it: None and the empty text are false.
Truthy(x) == x \notin {None, ""}

\* A local name that holds a response, before its first assignment.
Unbound == [unbound |-> TRUE]

\* A local name that holds a table, before its first assignment.
UnboundTable == <<Unbound>>

\* The value of nextToken when there is none; tokens are 1, 2, ...
NoToken == 0

----------------------------------------------------------------------------
(* get_batch_job_id_list                                                   *)

\* Line 63, were RUNNING listed before the two final statuses.
StatusNeededRunningFirst == <<"RUNNING", "SUCCEEDED", "FAILED">>

\* Line 63.
status_needed == <<"SUCCEEDED", "FAILED", "RUNNING">>

\* time.mktime(...) * 1000: the cutoff in epoch milliseconds.
epoch_batch_start == batch_start_time * 1000

\* Creation times around the cutoff, in milliseconds.
CreatedAts == {epoch_batch_start - 1, epoch_batch_start, epoch_batch_start + 1}

\* The name the service holds for a job; the name of j2 holds the word nextToken.
JobNameOf(j) == IF j = "j2" THEN <<"nextToken", "align">> ELSE <<"align">>

JobSummaries ==
    {[jobId |-> j, createdAt |-> t, jobName |-> JobNameOf(j)] :
        j \in JobIds, t \in CreatedAts}

ListPages == SeqsUpTo(JobSummaries, MaxPageLen)

\* The words of str(response) of a list_jobs response.
StrOfListResponse(r) ==
    {"jobSummaryList"}
    \cup (IF r.nextToken # NoToken THEN {"nextToken"} ELSE {})
    \cup UNION {{"jobId", "createdAt", "jobName"} \cup Range(x.jobName) :
                    x \in Range(r.jobSummaryList)}

\* Lines 79 and 94, were the comparison not strict.
RetainedAtOrAfter(x) == x.createdAt >= epoch_batch_start

\* Lines 79 and 94: the test that keeps a job.
Retained(x) == x.createdAt > epoch_batch_start

\* Lines 78-80 and 93-95: the ids of the entries of a page that are kept.
RECURSIVE RetainedIds(_)
RetainedIds(l) ==
    IF l = <<>> THEN <<>>
    ELSE (IF Retained(Head(l)) THEN <<Head(l).jobId>> ELSE <<>>)
         \o RetainedIds(Tail(l))

\* Line 82: the test 'nextToken' in str(response).
FirstPageReadsToken(r) == "nextToken" \in StrOfListResponse(r)

\* Line 82: response['nextToken'] raises KeyError when the key is not there.
FirstPageKeyError(r) == FirstPageReadsToken(r) /\ r.nextToken = NoToken

\* Line 82: the value nextToken gets when the subscript does not raise.
FirstPageToken(r) == IF FirstPageReadsToken(r) THEN r.nextToken ELSE NoToken

\* Lines 97-100.
NextPageToken(r) == r.nextToken

InitList ==
    /\ status_idx = 1
    /\ list_response = Unbound
    /\ nextToken = NoToken
    /\ temp_job_ids = <<>>
    /\ job_id_list = <<>>
    /\ extra_pages = 0
    /\ list_failed = FALSE

\* An uncaught exception e leaves function f.
Raise(e, f) ==
    /\ pc' = "raised"
    /\ exception' = e
    /\ raised_in' = f

\* Lines 78-82: what the function does with the first response r of a status.
FirstPageStep(r) ==
    /\ list_response' = r
    /\ temp_job_ids' = RetainedIds(r.jobSummaryList)
    /\ IF FirstPageKeyError(r)
       THEN /\ Raise("KeyError", "get_batch_job_id_list")
            /\ UNCHANGED nextToken
       ELSE /\ nextToken' = FirstPageToken(r)
            /\ pc' = IF FirstPageToken(r) # NoToken THEN "list_next" ELSE "list_extend"
            /\ UNCHANGED <<exception, raised_in>>
    /\ UNCHANGED <<status_idx, job_id_list, extra_pages, list_failed>>
    /\ UNCHANGED <<detailVars, usageVars, mainVars>>

\* Lines 93-100: what one iteration of the pagination loop does with its
\* response r.
NextPageStep(r) ==
    /\ list_response' = r
    /\ temp_job_ids' = temp_job_ids \o RetainedIds(r.jobSummaryList)
    /\ nextToken' = NextPageToken(r)
    /\ pc' = IF NextPageToken(r) # NoToken THEN "list_next" ELSE "list_extend"
    /\ extra_pages' = extra_pages + 1
    /\ UNCHANGED <<exception, raised_in, status_idx, job_id_list, list_failed>>
    /\ UNCHANGED <<detailVars, usageVars, mainVars>>

\* Lines 70-82: the first list_jobs call of a status and what follows it.
\* The service answers with a page of P, with or without a continuation.
ListFirstPage(P) ==
    /\ pc = "list_first"
    /\ \E l \in P, more \in BOOLEAN :
        /\ more => extra_pages < MaxExtraPages
        /\ FirstPageStep([jobSummaryList |-> l,
                          nextToken |-> IF more THEN 1 ELSE NoToken])
    /\ UNCHANGED serviceVars

\* Lines 85-100: one iteration of the pagination loop.
ListNextPage(P) ==
    /\ pc = "list_next"
    /\ \E l \in P, more \in BOOLEAN :
        /\ more => extra_pages + 1 < MaxExtraPages
        /\ NextPageStep([jobSummaryList |-> l,
                         nextToken |-> IF more THEN nextToken + 1 ELSE NoToken])
    /\ UNCHANGED serviceVars

\* Lines 72 and 86, were the error caught and the status given up.
ListJobsRaisesSwallowed ==
    /\ pc \in {"list_first", "list_next"}
    /\ list_failed' = TRUE
    /\ temp_job_ids' = IF pc = "list_first" THEN <<>> ELSE temp_job_ids
    /\ pc' = "list_extend"
    /\ UNCHANGED <<exception, raised_in, status_idx, list_response, nextToken,
                   job_id_list, extra_pages>>
    /\ UNCHANGED <<serviceVars, detailVars, usageVars, mainVars>>

\* Lines 70-72 and 86: list_jobs raises; nothing in the function or in main
\* catches it.  Before the first call of a status line 70 has emptied
\* temp_job_ids; in the pagination loop it holds the ids of the pages so far.
ListJobsRaises ==
    /\ pc \in {"list_first", "list_next"}
    /\ list_failed' = TRUE
    /\ temp_job_ids' = IF pc = "list_first" THEN <<>> ELSE temp_job_ids
    /\ Raise("ClientError", "get_batch_job_id_list")
    /\ UNCHANGED <<status_idx, list_response, nextToken, job_id_list,
                   extra_pages>>
    /\ UNCHANGED <<serviceVars, detailVars, usageVars, mainVars>>

\* Lines 102-106: the end of one status; after the last one the list is returned.
ExtendJobIdList ==
    /\ pc = "list_extend"
    /\ job_id_list' = job_id_list \o temp_job_ids
    /\ IF status_idx < Len(status_needed)
       THEN /\ status_idx' = status_idx + 1
            /\ pc' = "list_first"
       ELSE /\ status_idx' = status_idx
            /\ pc' = "list_returned"
    /\ UNCHANGED <<exception, raised_in, list_response, nextToken, temp_job_ids,
                   extra_pages, list_failed>>
    /\ UNCHANGED <<serviceVars, detailVars, usageVars, mainVars>>

----------------------------------------------------------------------------
(* get_batch_job_id_list against a queue whose jobs change status while    *)
(* the function runs.  list_jobs answers from the statuses the jobs have   *)
(* at the moment of the call (lines 72-76 and 86-91).                      *)

\* The statuses a job of the queue goes through; the first is one of the
\* statuses that the function does not ask for.
JobStatuses == {"STARTING", "RUNNING", "SUCCEEDED", "FAILED"}

\* The moves of a job from one status to the next.
JobMoves(from, to) ==
    \/ from = "STARTING" /\ to = "RUNNING"
    \/ from = "RUNNING" /\ to \in {"SUCCEEDED", "FAILED"}

\* The order in which the service lists the jobs of a queue.
JobOrder == <<"j1", "j2">>

\* The list_jobs calls answered so far in the run.
ListCalls ==
    (status_idx - 1) + extra_pages
    + (IF pc \in {"list_next", "list_extend", "list_returned"} THEN 1 ELSE 0)

\* An entry of jobSummaryList for job j.
SummaryOf(j) ==
    [jobId |-> j, createdAt |-> batch_jobs[j].createdAt, jobName |-> JobNameOf(j)]

\* The jobs from position i of the order on that are in status st now.
RECURSIVE JobsInStatusFrom(_, _)
JobsInStatusFrom(i, st) ==
    IF i > Len(JobOrder) THEN <<>>
    ELSE (IF batch_jobs[JobOrder[i]].status = st THEN <<i>> ELSE <<>>)
         \o JobsInStatusFrom(i + 1, st)

\* The responses of list_jobs(jobStatus=st) for a call that continues after
\* position cursor of the order.  The page holds the next k jobs that are in
\* status st now; a continuation token names the position the page ends at
\* and is there whenever jobs are left over.  may_continue: the service still
\* hands out continuations.
QueueResponses(st, cursor, may_continue) ==
    LET M == JobsInStatusFrom(cursor + 1, st)
        Choices == {c \in (0..Len(M)) \X BOOLEAN :
                        /\ M # <<>> => c[1] >= 1
                        /\ c[1] < Len(M) => c[2]
                        /\ c[2] => may_continue}
    IN  {[jobSummaryList |-> [i \in 1..c[1] |-> SummaryOf(JobOrder[M[i]])],
          nextToken |-> IF c[2] THEN (IF c[1] = 0 THEN cursor ELSE M[c[1]]) + 1
                        ELSE NoToken] : c \in Choices}

\* Lines 70-82 against the queue: the first page of the status at hand.
QueueFirstPage ==
    /\ pc = "list_first"
    /\ \E r \in QueueResponses(status_needed[status_idx], 0,
                                extra_pages < MaxExtraPages) :
        FirstPageStep(r)
    /\ UNCHANGED serviceVars

\* Lines 85-100 against the queue: the page that nextToken continues with.
QueueNextPage ==
    /\ pc = "list_next"
    /\ \E r \in QueueResponses(status_needed[status_idx], nextToken - 1,
                                extra_pages + 1 < MaxExtraPages) :
        NextPageStep(r)
    /\ UNCHANGED serviceVars

\* A job of the queue moves to its next status while the function runs.
JobChangesStatus ==
    /\ pc \in {"list_first", "list_next", "list_extend"}
    /\ \E j \in JobIds, to \in JobStatuses :
        /\ JobMoves(batch_jobs[j].status, to)
        /\ batch_jobs' = [batch_jobs EXCEPT ![j].status = to,
                                            ![j].moved_after = ListCalls]
    /\ UNCHANGED <<pc, exception, raised_in, listVars, detailVars, usageVars,
                   mainVars>>

----------------------------------------------------------------------------
(* get_job_details                                                         *)

\* The task a job runs as (the last segment of its taskArn).
TaskOf(j) == IF j = "j1" THEN "t1" ELSE "t2"

Images == {<<"gatk">>, <<"gatk", "vcpus">>, <<"gatk", "memory">>}

VcpuMemoryRequirements ==
    <<[type |-> "VCPU", value |-> "4"], [type |-> "MEMORY", value |-> "4096"]>>

\* The container part of a job description.  A key the description does not
\* hold is Absent; a resourceRequirements list that is not there is <<>>.
Containers(j, st) ==
    {[image |-> im, vcpus |-> v, memory |-> m, resourceRequirements |-> rr,
      taskArn |-> IF st = "RUNNING" THEN TaskOf(j) ELSE Absent] :
        im \in Images, v \in {Absent, "2"}, m \in {Absent, "2048"},
        rr \in {<<>>, VcpuMemoryRequirements}}

\* The texts an attempt may hold as container.reason and as statusReason.
\* Absent: the attempt does not have the key.
ContainerReasons == {Absent, "", "OutOfMemory"}

StatusReasons == {Absent, "unknown reason"}

\* The words of a text.
WordsOf(text) ==
    IF text = "" THEN {}
    ELSE IF text = "unknown reason" THEN {"unknown", "reason"}
    ELSE {text}

\* The attempts of a job: each ran as one of two tasks.
Attempts ==
    {[container |-> [taskArn |-> t, reason |-> cr], statusReason |-> sr] :
        t \in {"t1", "t2"}, cr \in ContainerReasons, sr \in StatusReasons}

\* An attempt of job j that gave no reason.
PlainAttempt(j) ==
    [container |-> [taskArn |-> TaskOf(j), reason |-> Absent],
     statusReason |-> Absent]

\* A job that was retried once has two attempts.
AttemptLists == {<<>>} \cup {<<a>> : a \in Attempts}
                \cup {<<a, b>> : a \in Attempts, b \in Attempts}

\* A container that gives image, vcpus and memory as direct fields.
PlainContainer(j, st) ==
    [image |-> <<"gatk">>, vcpus |-> "2", memory |-> "2048",
     resourceRequirements |-> <<>>,
     taskArn |-> IF st = "RUNNING" THEN TaskOf(j) ELSE Absent]

\* The descriptions of job j: every container with the attempts of a job that
\* ran once, and every list of attempts with a plain container.
JobDescriptions(j) ==
    UNION {{[jobName |-> JobNameOf(j), status |-> st, container |-> c,
             attempts |-> IF st = "RUNNING" THEN <<>> ELSE <<PlainAttempt(j)>>] :
                c \in Containers(j, st)}
           \cup {[jobName |-> JobNameOf(j), status |-> st,
                  container |-> PlainContainer(j, st), attempts |-> as] :
                as \in AttemptLists} : st \in Range(status_needed)}

\* What describe_jobs may answer for job j: one description, or none.
DescribeResponses(j) ==
    {[jobs |-> <<>>]} \cup {[jobs |-> <<d>>] : d \in JobDescriptions(j)}

\* The words of str(container).
StrOfContainer(c) ==
    {"image"} \cup Range(c.image)
    \cup (IF c.vcpus # Absent THEN {"vcpus", c.vcpus} ELSE {})
    \cup (IF c.memory # Absent THEN {"memory", c.memory} ELSE {})
    \cup (IF c.taskArn # Absent THEN {"taskArn", c.taskArn} ELSE {})
    \cup (IF c.resourceRequirements # <<>>
          THEN {"resourceRequirements", "type", "value"}
               \cup {x.type : x \in Range(c.resourceRequirements)}
               \cup {x.value : x \in Range(c.resourceRequirements)}
          ELSE {})

\* Lines 143 and 144: which schema the record is read from.
ReadsDirect(c, key) == key \in StrOfContainer(c)

\* Lines 143 and 144: the subscripts raise (KeyError, IndexError).
RequirementFails(c, key) ==
    IF ReadsDirect(c, key)
    THEN (IF key = "vcpus" THEN c.vcpus = Absent ELSE c.memory = Absent)
    ELSE Len(c.resourceRequirements) < (IF key = "vcpus" THEN 1 ELSE 2)

\* Lines 143 and 144: the value read; python's index 0 and 1 are 1 and 2 here.
Requirement(c, key) ==
    IF ReadsDirect(c, key)
    THEN (IF key = "vcpus" THEN c.vcpus ELSE c.memory)
    ELSE c.resourceRequirements[IF key = "vcpus" THEN 1 ELSE 2].value

\* The words of str(i) of an attempt i.  The key statusReason does not hold
\* the text 'reason' (the R is a capital); the words of its value may.
StrOfAttempt(i) ==
    {"container", "taskArn", i.container.taskArn}
    \cup (IF i.container.reason # Absent
          THEN {"reason"} \cup WordsOf(i.container.reason) ELSE {})
    \cup (IF i.statusReason # Absent
          THEN {"statusReason"} \cup WordsOf(i.statusReason) ELSE {})

\* Line 132: the test 'reason' in str(i).
AttemptReadsReason(i) == "reason" \in StrOfAttempt(i)

\* Line 133: i['container']['reason'] raises KeyError when the key is not there.
AttemptFails(i) == AttemptReadsReason(i) /\ i.container.reason = Absent

\* a + "|" + b, for the texts of the model.
Bar(a, b) ==
    CASE a = "t1" /\ b = "t2" -> "t1|t2"
      [] a = "t2" /\ b = "t1" -> "t2|t1"
      [] a = "OutOfMemory" /\ b = "OutOfMemory" -> "OutOfMemory|OutOfMemory"
      [] a = "OutOfMemory" /\ b = "" -> "OutOfMemory|"

\* Lines 130-134: reasons after the attempts of l, from the value so far.
\* `not reasons` of line 133 holds for None and for the empty text: the
\* reason at hand then replaces the value.
RECURSIVE ReasonsFrom(_, _)
ReasonsFrom(reasons, l) ==
    IF l = <<>> THEN reasons
    ELSE ReasonsFrom(IF AttemptReadsReason(Head(l))
                     THEN (IF ~Truthy(reasons) THEN Head(l).container.reason
                           ELSE Bar(reasons, Head(l).container.reason))
                     ELSE reasons,
                     Tail(l))

\* Lines 122-150 raise for this answer of describe_jobs.
ParseFails(r) ==
    \/ r.jobs = <<>>
    \/ /\ r.jobs # <<>>
       /\ LET d == r.jobs[1]
          IN  \/ d.status = "RUNNING" /\ d.container.taskArn = Absent
              \/ \E i \in 1..Len(d.attempts) :
                    d.status # "RUNNING" /\ d.attempts[i].container.taskArn = Absent
              \/ \E i \in 1..Len(d.attempts) : AttemptFails(d.attempts[i])
              \/ RequirementFails(d.container, "vcpus")
              \/ RequirementFails(d.container, "memory")

\* Lines 125 and 128: the task ids; line 128 makes a set of those of all the
\* attempts.
TaskIds(d) ==
    IF d.status = "RUNNING" THEN {d.container.taskArn}
    ELSE {d.attempts[i].container.taskArn : i \in 1..Len(d.attempts)}

\* Line 148: '|'.join(task_ids).  list(set(...)) of line 128 gives the ids in
\* an order that changes from one run of the interpreter to the next: every
\* order is a value the record may hold.
TaskIdJoins(d) ==
    IF TaskIds(d) = {} THEN {""}
    ELSE IF Cardinality(TaskIds(d)) = 1 THEN TaskIds(d)
    ELSE UNION {{Bar(a, b) : b \in TaskIds(d) \ {a}} : a \in TaskIds(d)}

\* Lines 136-150: the record of a job, with the task ids joined as task_id.
JobRecord(job_id, r, task_id) ==
    LET d == r.jobs[1]
    IN  [job_id |-> job_id,
         job_name |-> d.jobName,
         job_status |-> d.status,
         vcpus |-> Requirement(d.container, "vcpus"),
         memory |-> Requirement(d.container, "memory"),
         num_attempts |-> Len(d.attempts),
         task_id |-> task_id,
         reasons |-> ReasonsFrom(None, d.attempts)]

InitDetails ==
    /\ job_idx = 0
    /\ describe_response = Unbound
    /\ final_list = <<>>
    /\ outcomes = <<>>
    /\ batch_job_details_df = UnboundTable

\* Lines 119-121 and 151-152: describe_jobs raises for the next job.  The
\* handler formats `response`, which is unbound until a first answer came.
DescribeJobsRaises ==
    /\ pc = "describe"
    /\ job_idx < Len(job_id_list)
    /\ job_idx' = job_idx + 1
    /\ outcomes' = Append(outcomes, "describe_failed")
    /\ IF describe_response = Unbound
       THEN Raise("UnboundLocalError", "get_job_details")
       ELSE UNCHANGED <<pc, exception, raised_in>>
    /\ UNCHANGED <<describe_response, final_list, batch_job_details_df, serviceVars, listVars, usageVars, mainVars>>

\* Lines 119-152: describe_jobs answers for the next job, job_id, with one of
\* the responses D[job_id].
DescribeJobAnswers(D) ==
    /\ pc = "describe"
    /\ job_idx < Len(job_id_list)
    /\ LET job_id == job_id_list[job_idx + 1]
       IN  \E r \in D[job_id] :
            /\ describe_response' = r
            /\ IF ParseFails(r)
               THEN /\ final_list' = final_list
                    /\ outcomes' = Append(outcomes, "parse_failed")
               ELSE /\ \E task_id \in TaskIdJoins(r.jobs[1]) :
                        final_list' = Append(final_list, JobRecord(job_id, r, task_id))
                    /\ outcomes' = Append(outcomes, "ok")
    /\ job_idx' = job_idx + 1
    /\ UNCHANGED <<pc, exception, raised_in, batch_job_details_df, serviceVars, listVars, usageVars, mainVars>>

\* Lines 154-157: the table; df['started_at'] raises KeyError on a table
\* built from no record, which has no column.
BuildJobDetails ==
    /\ pc = "describe"
    /\ job_idx = Len(job_id_list)
    /\ IF final_list = <<>>
       THEN /\ Raise("KeyError", "get_job_details")
            /\ UNCHANGED batch_job_details_df
       ELSE /\ batch_job_details_df' = final_list
            /\ pc' = "details_returned"
            /\ UNCHANGED <<exception, raised_in>>
    /\ UNCHANGED <<job_idx, describe_response, final_list, outcomes, serviceVars, listVars,
                   usageVars, mainVars>>

----------------------------------------------------------------------------
(* get_resource_usage                                                      *)

\* The local `response` before the first get_query_results of a window.
NoneResponse == [none |-> TRUE]

\* A log record is modelled by what ast.literal_eval makes of its value: a
\* dict with the keys `keys`, or nothing when the text does not parse.
TaskRecord(t, cpu) ==
    [parses |-> TRUE,
     keys |-> {"Type", "TaskId", "ContainerInstanceId", "CpuUtilized",
               "CpuReserved", "MemoryUtilized", "MemoryReserved"},
     Type |-> "Task", TaskId |-> t, CpuUtilized |-> cpu]

LogRecords ==
    {TaskRecord("t1", 10), TaskRecord("t2", 30),
     [TaskRecord("t1", 10) EXCEPT !.Type = "Container"],
     [TaskRecord("t1", 10) EXCEPT !.keys = @ \ {"CpuUtilized"}],
     [TaskRecord("t1", 10) EXCEPT !.parses = FALSE]}

QueryStatuses == {"Scheduled", "Running", "Complete"}

\* What get_query_results may answer.  The results of a query that is not
\* complete are not read by the loop that waits, and are left empty.
QueryResponses ==
    {[status |-> "Complete", results |-> rs] : rs \in SeqsUpTo(LogRecords, MaxRecords)}
    \cup {[status |-> st, results |-> <<>>] : st \in QueryStatuses}

\* Lines 197-207 raise for this record: the text does not parse, or a key
\* that is read is not there.
RecordFails(rec) ==
    \/ ~rec.parses
    \/ "Type" \notin rec.keys
    \/ /\ rec.Type = "Task"
       /\ ~({"TaskId", "ContainerInstanceId", "CpuUtilized", "CpuReserved",
             "MemoryUtilized", "MemoryReserved"} \subseteq rec.keys)

\* Lines 198-208: the rows one record adds to final_output.
RowsOfRecord(rec) ==
    IF rec.Type = "Task"
    THEN <<[task_id |-> rec.TaskId, cpu_used |-> rec.CpuUtilized]>>
    ELSE <<>>

\* Lines 196-208: the rows appended until the loop ends or a record raises.
RECURSIVE RowsUntilFailure(_)
RowsUntilFailure(rs) ==
    IF rs = <<>> \/ RecordFails(Head(rs)) THEN <<>>
    ELSE RowsOfRecord(Head(rs)) \o RowsUntilFailure(Tail(rs))

\* Lines 196-208 raise for some record of the answer.
ResultsFail(rs) == \E i \in 1..Len(rs) : RecordFails(rs[i])

RECURSIVE SumCpu(_)
SumCpu(rows) == IF rows = <<>> THEN 0 ELSE Head(rows).cpu_used + SumCpu(Tail(rows))

TaskOrder == <<"t1", "t2">>

\* Line 218: groupby(task_id, container_instance_id).mean(), one row per
\* task in key order.  A mean is held as the sum and the count it divides.
GroupMean(rows) ==
    LET RowOf(t) ==
            LET mine == SelectSeq(rows, LAMBDA x : x.task_id = t)
            IN  [task_id |-> t,
                 cpu_used |-> [sum |-> SumCpu(mine), count |-> Len(mine)]]
        Present(t) == \E i \in 1..Len(rows) : rows[i].task_id = t
        present == SelectSeq(TaskOrder, Present)
    IN  [i \in 1..Len(present) |-> RowOf(present[i])]

\* Lines 166-170: the locals at the entry of the function.
InitUsage ==
    /\ epoch_start = batch_start_time
    /\ epoch_end = batch_start_time + cloudwatch_query_interval
    /\ query_response = NoneResponse
    /\ final_output = <<>>
    /\ queried = <<>>
    /\ failed_window = 0
    /\ container_resource_consumption_df = UnboundTable

\* Line 175, were the comparison not strict.
WindowIsDueAtOrBeforeNow ==
    /\ epoch_end <= current_epoch_time
    /\ cloudwatch_query_interval = 0 => Len(queried) < MaxWindows

\* Line 175: the loop goes on.  With an interval of 0 the window never moves
\* and the loop has no end; MaxWindows of its rounds are followed.
WindowIsDue ==
    /\ epoch_end < current_epoch_time
    /\ cloudwatch_query_interval = 0 => Len(queried) < MaxWindows

\* Lines 212-213: the handler of the try block; the loop is not resumed.
AbortWindows(k) ==
    /\ failed_window' = k
    /\ pc' = "usage_build"

\* Lines 175-188: start_query for the window [epoch_start, epoch_end].
StartQuery ==
    /\ pc = "usage_loop"
    /\ WindowIsDue
    /\ queried' = Append(queried, [startTime |-> epoch_start, endTime |-> epoch_end])
    /\ query_response' = NoneResponse
    /\ pc' = "poll"
    /\ UNCHANGED <<exception, raised_in, serviceVars, listVars, detailVars, mainVars>>
    /\ UNCHANGED <<cloudwatch_log_group_name, cloudwatch_query_interval,
                   current_epoch_time, epoch_start, epoch_end, final_output,
                   failed_window, container_resource_consumption_df>>

\* Lines 177 and 212: start_query raises.
StartQueryRaises ==
    /\ pc = "usage_loop"
    /\ WindowIsDue
    /\ AbortWindows(Len(queried) + 1)
    /\ UNCHANGED <<exception, raised_in, serviceVars, listVars, detailVars, mainVars>>
    /\ UNCHANGED <<cloudwatch_log_group_name, cloudwatch_query_interval,
                   current_epoch_time, epoch_start, epoch_end, query_response,
                   final_output, queried, container_resource_consumption_df>>

\* Line 175: the loop ends, no window is left before the current time.
WindowsDone ==
    /\ pc = "usage_loop"
    /\ ~(epoch_end < current_epoch_time)
    /\ pc' = "usage_build"
    /\ UNCHANGED <<exception, raised_in, serviceVars, listVars, detailVars, usageVars, mainVars>>

\* Line 189, were the loop left at the first answer whatever its status.
KeepsPollingOnce(r) == FALSE

\* Line 189: the poll loop goes on after this answer.
KeepsPolling(r) == r.status = "Running"

\* Lines 189-192: one sleep and one get_query_results, with an answer of Q.
Poll(Q) ==
    /\ pc = "poll"
    /\ \E r \in Q :
        /\ query_response' = r
        /\ pc' = IF KeepsPolling(r) THEN "poll" ELSE "read"
    /\ UNCHANGED <<exception, raised_in, serviceVars, listVars, detailVars, mainVars>>
    /\ UNCHANGED <<cloudwatch_log_group_name, cloudwatch_query_interval,
                   current_epoch_time, epoch_start, epoch_end, final_output,
                   queried, failed_window, container_resource_consumption_df>>

\* Lines 192 and 212: get_query_results raises.
GetQueryResultsRaises ==
    /\ pc = "poll"
    /\ AbortWindows(Len(queried))
    /\ UNCHANGED <<exception, raised_in, serviceVars, listVars, detailVars, mainVars>>
    /\ UNCHANGED <<cloudwatch_log_group_name, cloudwatch_query_interval,
                   current_epoch_time, epoch_start, epoch_end, query_response,
                   final_output, queried, container_resource_consumption_df>>

\* Lines 196-211, were a failing record to end only its own window.
ReadResultsResumes ==
    /\ pc = "read"
    /\ final_output' = final_output \o RowsUntilFailure(query_response.results)
    /\ epoch_start' = epoch_end
    /\ epoch_end' = epoch_end + cloudwatch_query_interval
    /\ pc' = "usage_loop"
    /\ UNCHANGED failed_window
    /\ UNCHANGED <<exception, raised_in, serviceVars, listVars, detailVars, mainVars>>
    /\ UNCHANGED <<cloudwatch_log_group_name, cloudwatch_query_interval,
                   current_epoch_time, query_response, queried,
                   container_resource_consumption_df>>

\* Lines 196-213: the records of the answer, then the next window; a record
\* that raises ends the loop over the windows.
ReadResults ==
    /\ pc = "read"
    /\ final_output' = final_output \o RowsUntilFailure(query_response.results)
    /\ IF ResultsFail(query_response.results)
       THEN /\ AbortWindows(Len(queried))
            /\ UNCHANGED <<epoch_start, epoch_end>>
       ELSE /\ epoch_start' = epoch_end
            /\ epoch_end' = epoch_end + cloudwatch_query_interval
            /\ pc' = "usage_loop"
            /\ UNCHANGED failed_window
    /\ UNCHANGED <<exception, raised_in, serviceVars, listVars, detailVars, mainVars>>
    /\ UNCHANGED <<cloudwatch_log_group_name, cloudwatch_query_interval,
                   current_epoch_time, query_response, queried,
                   container_resource_consumption_df>>

\* Lines 215-223: the table of means, written when it has a row.
BuildResourceUsage ==
    /\ pc = "usage_build"
    /\ container_resource_consumption_df' = GroupMean(final_output)
    /\ files' = IF Len(GroupMean(final_output)) > 0
                THEN files \cup {"task_resource_usage.csv"} ELSE files
    /\ pc' = "usage_returned"
    /\ UNCHANGED <<exception, raised_in, serviceVars, listVars, detailVars>>
    /\ UNCHANGED <<cloudwatch_log_group_name, cloudwatch_query_interval,
                   current_epoch_time, epoch_start, epoch_end, query_response,
                   final_output, queried, failed_window>>
    /\ UNCHANGED <<job_modules_df, output_df, submodule_summary_df,
                   highlevel_summary_df>>

----------------------------------------------------------------------------
(* get_summaries                                                           *)
(* Start and stop times and the durations computed from them are left out; *)
(* a table is the sequence of its rows, a grouped table the set of them.   *)

ModuleKey(m) ==
    [module_name |-> m.module_name, module_number |-> m.module_number,
     main_module_name |-> m.main_module_name]

\* Lines 236-240: the successful jobs, left-joined with the mapping on
\* job_name: one row per pair of a job (its position i) and a mapping row of
\* its name.  A job without mapping row keeps empty module columns, which
\* groupby and value_counts drop.
MappedSuccessRows(df, mapping) ==
    {<<i, m>> \in (1..Len(df)) \X mapping :
        df[i].job_status = "SUCCEEDED" /\ m.job_name = df[i].job_name}

\* Line 241: groupby(module_name, module_number, main_module_name).
ModuleGroups(df, mapping) ==
    {ModuleKey(p[2]) : p \in MappedSuccessRows(df, mapping)}

\* Line 242: value_counts over the same three columns.
ValueCount(df, mapping, k) ==
    Cardinality({p \in MappedSuccessRows(df, mapping) : ModuleKey(p[2]) = k})

\* Line 242: the columns the groups and the counts are merged on.
MergedOn(g, c) == g.module_name = c.module_name

\* Lines 241-245: the submodule summary.  The merge gives a row for every pair
\* of a group and a count that agree on the merged columns; the _x columns are
\* the group's, the _y columns (dropped at line 245) the count's.
SubmoduleSummary(df, mapping) ==
    {[module_number_x |-> g.module_number,
      main_module_name_x |-> g.main_module_name,
      module_name |-> g.module_name,
      module_number_y |-> c.module_number,
      main_module_name_y |-> c.main_module_name,
      job_counts |-> ValueCount(df, mapping, c)] :
        <<g, c>> \in {gc \in ModuleGroups(df, mapping) \X ModuleGroups(df, mapping) :
                        MergedOn(gc[1], gc[2])}}

RECURSIVE SumJobCounts(_)
SumJobCounts(rows) ==
    IF rows = {} THEN 0
    ELSE LET r == CHOOSE x \in rows : TRUE
         IN  r.job_counts + SumJobCounts(rows \ {r})

\* Line 250: groupby(module_number_x, main_module_name_x), job_counts summed.
HighlevelSummary(sub) ==
    {[module_number_x |-> r.module_number_x,
      main_module_name_x |-> r.main_module_name_x,
      job_counts |-> SumJobCounts({x \in sub :
                        /\ x.module_number_x = r.module_number_x
                        /\ x.main_module_name_x = r.main_module_name_x})] :
        r \in sub}

InitSummaries ==
    /\ submodule_summary_df = {}
    /\ highlevel_summary_df = {}
    /\ files = {}

\* Lines 278-299 of main: get_summaries (lines 232-254), then the statistics
\* that are only logged.
GetSummaries ==
    /\ pc = "summaries"
    /\ submodule_summary_df' = SubmoduleSummary(output_df, job_modules_df)
    /\ highlevel_summary_df' =
            HighlevelSummary(SubmoduleSummary(output_df, job_modules_df))
    /\ files' = files \cup {"submodule_summary.csv", "highlevel_summary.csv"}
    /\ pc' = "done"
    /\ UNCHANGED <<exception, raised_in, serviceVars, listVars, detailVars, usageVars,
                   job_modules_df, output_df>>

----------------------------------------------------------------------------
(* main                                                                    *)

\* Line 270: merge(batch_job_details_df, usage, on="task_id", how="left").
\* The usage table has at most one row per task.
JoinedRow(row, usage) ==
    LET hits == SelectSeq(usage, LAMBDA u : u.task_id = row.task_id)
    IN  [job_id |-> row.job_id, job_name |-> row.job_name,
         job_status |-> row.job_status, vcpus |-> row.vcpus,
         memory |-> row.memory, num_attempts |-> row.num_attempts,
         task_id |-> row.task_id, reasons |-> row.reasons,
         cpu_used |-> IF hits = <<>> THEN [sum |-> 0, count |-> 0]
                      ELSE hits[1].cpu_used]

LeftJoin(details, usage) == [i \in 1..Len(details) |-> JoinedRow(details[i], usage)]

\* Lines 261-263: the list is back; get_job_details is entered when it is
\* not empty, else main is over.
MainAfterList ==
    /\ pc = "list_returned"
    /\ pc' = IF job_id_list # <<>> THEN "describe" ELSE "done"
    /\ UNCHANGED <<exception, raised_in, serviceVars, listVars, detailVars, usageVars, mainVars>>

\* Lines 264-266 and 272-275: the details are back.  With a log group
\* get_resource_usage is entered (lines 166-170); else the job table is
\* written as it is.
MainAfterDetails ==
    /\ pc = "details_returned"
    /\ IF Len(batch_job_details_df) > 0 /\ Truthy(cloudwatch_log_group_name)
       THEN /\ pc' = "usage_loop"
            /\ UNCHANGED <<output_df, files>>
       ELSE /\ output_df' = batch_job_details_df
            /\ files' = files \cup {"job_details.csv"}
            /\ pc' = "summaries"
    /\ UNCHANGED <<exception, raised_in, serviceVars, listVars, detailVars, usageVars>>
    /\ UNCHANGED <<job_modules_df, submodule_summary_df, highlevel_summary_df>>

\* Lines 267-275: the usage table is back.  output_df is assigned only when
\* the usage table has a row; line 275 reads it either way.
MainAfterUsage ==
    /\ pc = "usage_returned"
    /\ IF Len(container_resource_consumption_df) > 0
       THEN /\ output_df' =
                LeftJoin(batch_job_details_df, container_resource_consumption_df)
            /\ files' = files \cup {"job_details.csv"}
            /\ pc' = "summaries"
            /\ UNCHANGED <<exception, raised_in>>
       ELSE /\ Raise("UnboundLocalError", "main")
            /\ UNCHANGED <<output_df, files>>
    /\ UNCHANGED <<serviceVars, listVars, detailVars, usageVars>>
    /\ UNCHANGED <<job_modules_df, submodule_summary_df, highlevel_summary_df>>

----------------------------------------------------------------------------
(* The specifications: each function on its own, then main.                *)

NoException ==
    /\ exception = "none"
    /\ raised_in = "none"

\* The arguments and the clock when only the batch service is used.
\* The answers of list_jobs are inputs of the step that calls it; the jobs of
\* the queue are not followed.
QueueNotFollowed == batch_jobs = <<>>

NoLogGroup ==
    /\ cloudwatch_log_group_name = None
    /\ cloudwatch_query_interval = 1
    /\ current_epoch_time = batch_start_time

NoMapping ==
    /\ job_modules_df = {}
    /\ output_df = UnboundTable

InitListRun ==
    /\ pc = "list_first"
    /\ NoException
    /\ QueueNotFollowed
    /\ InitList
    /\ InitDetails
    /\ NoLogGroup /\ InitUsage
    /\ NoMapping /\ InitSummaries

NextList ==
    \/ ListFirstPage(ListPages)
    \/ ListNextPage(ListPages)
    \/ ListJobsRaises
    \/ ExtendJobIdList

SpecList == InitListRun /\ [][NextList]_vars

\* get_batch_job_id_list against every queue of the jobs of JobIds, each in
\* one of the statuses and created around the cutoff.
InitListQueueRun ==
    /\ pc = "list_first"
    /\ NoException
    /\ batch_jobs \in [JobIds -> [status : JobStatuses, createdAt : CreatedAts,
                                  first_status : JobStatuses, moved_after : {-1}]]
    /\ \A j \in JobIds : batch_jobs[j].first_status = batch_jobs[j].status
    /\ InitList
    /\ InitDetails
    /\ NoLogGroup /\ InitUsage
    /\ NoMapping /\ InitSummaries

NextListQueue ==
    \/ QueueFirstPage
    \/ QueueNextPage
    \/ ListJobsRaises
    \/ ExtendJobIdList
    \/ JobChangesStatus

SpecListQueue == InitListQueueRun /\ [][NextListQueue]_vars

\* get_job_details for every list of at most MaxJobs job ids; main calls it
\* with a list that is not empty (line 262).
InitDetailsRun ==
    /\ pc = "describe"
    /\ NoException
    /\ QueueNotFollowed
    /\ status_idx = Len(status_needed)
    /\ list_response = Unbound
    /\ nextToken = NoToken
    /\ temp_job_ids = <<>>
    /\ job_id_list \in SeqsUpTo(JobIds, MaxJobs) \ {<<>>}
    /\ extra_pages = 0
    /\ list_failed = FALSE
    /\ InitDetails
    /\ NoLogGroup /\ InitUsage
    /\ NoMapping /\ InitSummaries

NextDetails ==
    \/ DescribeJobsRaises
    \/ DescribeJobAnswers([j \in JobIds |-> DescribeResponses(j)])
    \/ BuildJobDetails

SpecDetails == InitDetailsRun /\ [][NextDetails]_vars

\* get_resource_usage for every interval and every current time within
\* MaxSpan seconds of the batch start.
InitUsageRun ==
    /\ pc = "usage_loop"
    /\ NoException
    /\ QueueNotFollowed
    /\ InitList
    /\ InitDetails
    /\ cloudwatch_log_group_name = "log-group"
    /\ cloudwatch_query_interval \in 0..MaxSpan
    /\ current_epoch_time \in batch_start_time..(batch_start_time + MaxSpan)
    /\ InitUsage
    /\ NoMapping /\ InitSummaries

NextUsage ==
    \/ StartQuery
    \/ StartQueryRaises
    \/ WindowsDone
    \/ Poll(QueryResponses)
    \/ GetQueryResultsRaises
    \/ ReadResults
    \/ BuildResourceUsage

SpecUsage == InitUsageRun /\ [][NextUsage]_vars

\* The script takes its next step, and no query is answered 'Running' for ever.
SpecUsageLive == SpecUsage /\ WF_vars(NextUsage /\ pc' # pc)

\* get_summaries for every job table of at most MaxTableRows rows and every
\* mapping of at most MaxMappingRows rows.
JobNames == {JobNameOf(j) : j \in JobIds}

TableRows == [job_name : JobNames, job_status : {"SUCCEEDED", "FAILED"}]

MappingRows ==
    [job_name : JobNames, module_name : {"m1", "m2"}, module_number : {1, 2},
     main_module_name : {"A", "B"}]

SubsetsUpTo(S, n) == {T \in SUBSET S : Cardinality(T) <= n}

InitSummariesRun ==
    /\ pc = "summaries"
    /\ NoException
    /\ QueueNotFollowed
    /\ InitList
    /\ InitDetails
    /\ NoLogGroup /\ InitUsage
    /\ job_modules_df \in SubsetsUpTo(MappingRows, MaxMappingRows)
    /\ output_df \in SeqsUpTo(TableRows, MaxTableRows)
    /\ InitSummaries

NextSummaries == GetSummaries

SpecSummaries == InitSummariesRun /\ [][NextSummaries]_vars

\* main, from the call of get_batch_job_id_list to the end of the script,
\* on a queue that lists job j1, created after the cutoff, any number of
\* times; without a log group, with an empty name and with a name.
MainListPages ==
    {<<>>,
     <<[jobId |-> "j1", createdAt |-> epoch_batch_start + 1,
        jobName |-> JobNameOf("j1")]>>}

MainDescribeResponses(j) ==
    {[jobs |-> <<>>]}
    \cup {[jobs |-> <<d>>] : d \in
            {x \in JobDescriptions(j) :
                /\ x.container.image = <<"gatk">>
                /\ x.container.vcpus # Absent
                /\ x.container.memory # Absent
                /\ x.container.resourceRequirements = <<>>
                /\ x.attempts = IF x.status = "RUNNING" THEN <<>>
                                ELSE <<PlainAttempt(j)>>}}

MainQueryResponses ==
    {[status |-> st, results |-> rs] :
        st \in {"Running", "Complete"},
        rs \in {<<>>, <<TaskRecord("t1", 10)>>,
                <<[TaskRecord("t1", 10) EXCEPT !.parses = FALSE]>>}}

MainMapping ==
    {[job_name |-> JobNameOf("j1"), module_name |-> "m1", module_number |-> 1,
      main_module_name |-> "A"]}

InitMain ==
    /\ pc = "list_first"
    /\ NoException
    /\ QueueNotFollowed
    /\ InitList
    /\ InitDetails
    /\ cloudwatch_log_group_name \in {None, "", "log-group"}
    /\ cloudwatch_query_interval = 1
    /\ current_epoch_time \in {batch_start_time + 1, batch_start_time + MaxSpan}
    /\ InitUsage
    /\ job_modules_df = MainMapping
    /\ output_df = UnboundTable
    /\ InitSummaries

NextMain ==
    \/ ListFirstPage(MainListPages)
    \/ ListNextPage(MainListPages)
    \/ ListJobsRaises
    \/ ExtendJobIdList
    \/ MainAfterList
    \/ DescribeJobsRaises
    \/ DescribeJobAnswers([j \in JobIds |-> MainDescribeResponses(j)])
    \/ BuildJobDetails
    \/ MainAfterDetails
    \/ StartQuery
    \/ StartQueryRaises
    \/ WindowsDone
    \/ Poll(MainQueryResponses)
    \/ GetQueryResultsRaises
    \/ ReadResults
    \/ BuildResourceUsage
    \/ MainAfterUsage
    \/ GetSummaries

SpecMain == InitMain /\ [][NextMain]_vars

----------------------------------------------------------------------------
(* Properties of get_batch_job_id_list, checked under SpecList.            *)

IdsOf(l) == [i \in 1..Len(l) |-> l[i].jobId]

CreatedAfter(x) == x.createdAt > epoch_batch_start

CreatedAtOrAfter(x) == x.createdAt >= epoch_batch_start

\* A step in which list_jobs answered with a page.
PageStep ==
    /\ pc \in {"list_first", "list_next"}
    /\ list_failed' = list_failed

\* The ids collected for the status before the page of a PageStep.
IdsBeforePage == IF pc = "list_first" THEN <<>> ELSE temp_job_ids

\* C1 as stated: whenever a page is listed, the ids collected for the status
\* grow by exactly the ids of the page's entries whose createdAt is at or
\* after the cutoff, in page order (an entry at the cutoff is kept).
C1_RetainedAtOrAfterCutoff ==
    [][PageStep =>
        temp_job_ids' = IdsBeforePage
            \o IdsOf(SelectSeq(list_response'.jobSummaryList, CreatedAtOrAfter))]_vars

\* C1, amended: whenever a page is listed, the ids collected for the status
\* grow by exactly the ids of the page's entries whose createdAt is strictly
\* after the cutoff, in page order; an entry created at the cutoff or before
\* it is not kept.
C1_RetainedAfterCutoff ==
    [][PageStep =>
        temp_job_ids' = IdsBeforePage
            \o IdsOf(SelectSeq(list_response'.jobSummaryList, CreatedAfter))]_vars

\* A status whose second page holds only a job created exactly at the cutoff,
\* which was left out, after a first page whose job was kept.
C1_Witness ==
    /\ pc = "list_extend"
    /\ extra_pages = 1
    /\ Len(list_response.jobSummaryList) = 1
    /\ list_response.jobSummaryList[1].createdAt = epoch_batch_start
    /\ Len(temp_job_ids) = 1

\* C2: for every chain of pages the service answers with, the pagination of a
\* status ends normally: the function is left by an exception only when
\* list_jobs itself raised, a continuation is requested exactly with the token
\* of the page before it, and the loop is left at the page without a token.
C2_PaginationTerminates ==
    /\ (pc = "raised" /\ raised_in = "get_batch_job_id_list") => list_failed
    /\ pc = "list_next" =>
        nextToken # NoToken /\ nextToken = list_response.nextToken
    /\ pc = "list_extend" => list_response.nextToken = NoToken

----------------------------------------------------------------------------
(* Properties of get_job_details, checked under SpecDetails.               *)

\* The job ids of the input list whose describe call and parsing went through.
RECURSIVE OkJobIds(_)
OkJobIds(n) ==
    IF n = 0 THEN <<>>
    ELSE OkJobIds(n - 1)
         \o (IF outcomes[n] = "ok" THEN <<job_id_list[n]>> ELSE <<>>)

\* C3: no failure of a describe call or of the parsing of its answer escapes
\* get_job_details, whichever jobs fail; the table returned holds one record
\* per job that did not fail, in input order, and none for a job that failed.
C3_FailuresAreSwallowed ==
    /\ ~(pc = "raised" /\ raised_in = "get_job_details")
    /\ job_idx = Len(job_id_list) =>
        /\ pc = "details_returned" \/ pc = "describe"
        /\ pc = "details_returned" =>
            [i \in 1..Len(batch_job_details_df) |-> batch_job_details_df[i].job_id]
                = OkJobIds(job_idx)

\* The value C7 expects: the direct field when the container has it, else the
\* value of the entry of resourceRequirements at python index idx - 1.
HasExpected(c, key, idx) ==
    (IF key = "vcpus" THEN c.vcpus ELSE c.memory) # Absent
    \/ Len(c.resourceRequirements) >= idx

Expected(c, key, idx) ==
    IF (IF key = "vcpus" THEN c.vcpus ELSE c.memory) # Absent
    THEN (IF key = "vcpus" THEN c.vcpus ELSE c.memory)
    ELSE c.resourceRequirements[idx].value

\* C7: a job whose container gives vcpus and memory, each as a direct field or
\* in resourceRequirements, gets a record, and the record's vcpus and memory
\* are the direct fields when the container has them and entries 0 and 1 of
\* resourceRequirements otherwise, whatever else the container holds (the
\* attempts of the job being such that lines 131-134 do not raise).
C7_RequirementsBySchema ==
    (/\ pc = "describe"
     /\ job_idx > 0
     /\ outcomes[job_idx] # "describe_failed"
     /\ describe_response.jobs # <<>>
     /\ \A i \in 1..Len(describe_response.jobs[1].attempts) :
            ~AttemptFails(describe_response.jobs[1].attempts[i]))
    => LET c == describe_response.jobs[1].container
       IN  (HasExpected(c, "vcpus", 1) /\ HasExpected(c, "memory", 2))
           => /\ outcomes[job_idx] = "ok"
              /\ final_list[Len(final_list)].vcpus = Expected(c, "vcpus", 1)
              /\ final_list[Len(final_list)].memory = Expected(c, "memory", 2)

----------------------------------------------------------------------------
(* Properties of get_resource_usage, checked under SpecUsage.              *)

\* The rows of the 'Task' records of rs that come before its first record
\* that cannot be parsed (all of them when every record parses).
TaskRowsBeforeFailure(rs) ==
    LET bad == {i \in 1..Len(rs) : RecordFails(rs[i])}
        stop == IF bad = {} THEN Len(rs) + 1
                ELSE CHOOSE i \in bad : \A k \in bad : i <= k
        tasks == SelectSeq(SubSeq(rs, 1, stop - 1), LAMBDA x : x.Type = "Task")
    IN  [i \in 1..Len(tasks) |->
            [task_id |-> tasks[i].TaskId, cpu_used |-> tasks[i].CpuUtilized]]

\* After a failure in window k: the function goes on to build its result, no
\* window after k has been queried, and no exception has left the function.
AbortedAfterFailure ==
    failed_window > 0 =>
        /\ pc \in {"usage_build", "usage_returned"}
        /\ Len(queried) \in {failed_window - 1, failed_window}
        /\ exception = "none"
        /\ pc = "usage_returned" =>
            container_resource_consumption_df = GroupMean(final_output)

\* final_output grows only when an answer is read, and then by the 'Task'
\* records before the first failing one; a failing record ends the windows.
CollectsUntilFailure ==
    /\ pc # "read" => final_output' = final_output
    /\ pc = "read" =>
        /\ final_output' =
                final_output \o TaskRowsBeforeFailure(query_response.results)
        /\ ResultsFail(query_response.results) =>
                failed_window' = Len(queried) /\ pc' = "usage_build"
    /\ (pc \in {"usage_loop", "poll"} /\ pc' = "usage_build" /\ failed_window' = 0)
        => ~(epoch_end < current_epoch_time)

\* C5: a failure of start_query, of get_query_results or of the parsing of a
\* record in window k ends the windows: no later window is queried, the
\* exception stays inside the function, and the result is built from the
\* 'Task' records appended before the failure.
C5_FailureAbortsWindows == []AbortedAfterFailure /\ [][CollectsUntilFailure]_vars

\* The second window failed at its second record, after rows were collected.
C5_Witness ==
    /\ pc = "usage_returned"
    /\ failed_window = 2
    /\ Len(queried) = 2
    /\ query_response # NoneResponse
    /\ Len(query_response.results) = 2
    /\ ~RecordFails(query_response.results[1])
    /\ RecordFails(query_response.results[2])
    /\ Len(final_output) >= 2
    /\ Len(container_resource_consumption_df) > 0

LastStatus == IF query_response = NoneResponse THEN "None" ELSE query_response.status

\* Records are read, and the next window is started, only after an answer
\* that is not 'Running'; the loop polls while there is no answer or the
\* last one is 'Running'.
PollsUntilNotRunning ==
    /\ pc = "poll" => LastStatus \in {"None", "Running"}
    /\ pc = "read" => LastStatus \notin {"None", "Running"}
    /\ (pc = "usage_loop" /\ queried # <<>>) => LastStatus \notin {"None", "Running"}

\* A step of the poll loop in which get_query_results answered.
AnswerStep == pc = "poll" /\ failed_window' = failed_window

\* After start_query the loop is entered with no answer yet; an answer
\* 'Running' keeps the loop going, however many came before, and any other
\* answer ends it at once.
LeavesAtFirstNotRunning ==
    /\ (pc = "usage_loop" /\ pc' # "usage_build") =>
            pc' = "poll" /\ query_response' = NoneResponse
    /\ AnswerStep =>
        /\ query_response' # NoneResponse
        /\ query_response'.status = "Running" => pc' = "poll"
        /\ query_response'.status # "Running" => pc' = "read"

\* C6: in every window get_query_results is called at least once after
\* start_query, the poll loop is left exactly at the first answer whose
\* status is not 'Running', nothing is read and no window is started while
\* the last status is 'Running', and while the answers are 'Running' the
\* loop goes on without end.
C6_PollsWhileRunning == []PollsUntilNotRunning /\ [][LeavesAtFirstNotRunning]_vars

\* The second window is still polled after an answer 'Running'.
C6_Witness ==
    /\ pc = "poll"
    /\ Len(queried) = 2
    /\ LastStatus = "Running"

\* The windows queried so far are consecutive, of the size of the interval,
\* start at the batch start and end strictly before the current time; with a
\* positive interval their number is bounded by the time to cover.
ConsecutiveWindows ==
    /\ \A i \in 1..Len(queried) :
        /\ queried[i].startTime = batch_start_time + (i - 1) * cloudwatch_query_interval
        /\ queried[i].endTime = queried[i].startTime + cloudwatch_query_interval
        /\ queried[i].endTime < current_epoch_time
        /\ i > 1 => queried[i].startTime = queried[i - 1].endTime
    /\ (cloudwatch_query_interval > 0 /\ queried # <<>>) =>
        Len(queried) * cloudwatch_query_interval < current_epoch_time - batch_start_time

\* C10: the windows are consecutive and of fixed size, the first starts at
\* the batch start, each ends strictly before the current time read at the
\* entry, and with a positive interval, when no query stays 'Running', the
\* function returns.
C10_FixedWindowsAndTermination ==
    /\ []ConsecutiveWindows
    /\ cloudwatch_query_interval > 0 => <>(pc = "usage_returned")

\* Two windows were queried and the function has returned.
C10_Witness ==
    /\ pc = "usage_returned"
    /\ Len(queried) = 2
    /\ cloudwatch_query_interval > 0
    /\ failed_window = 0

----------------------------------------------------------------------------
(* Properties of get_summaries, checked under SpecSummaries.               *)

\* The SUCCEEDED jobs of the table that the mapping puts in group k.
SucceededJobsOf(k) ==
    {i \in 1..Len(output_df) :
        /\ output_df[i].job_status = "SUCCEEDED"
        /\ \E m \in job_modules_df :
            m.job_name = output_df[i].job_name /\ ModuleKey(m) = k}

GroupsWithSucceededJob ==
    {k \in {ModuleKey(m) : m \in job_modules_df} : SucceededJobsOf(k) # {}}

RowsOfGroup(k) ==
    {r \in submodule_summary_df :
        /\ r.module_name = k.module_name
        /\ r.module_number_x = k.module_number
        /\ r.main_module_name_x = k.main_module_name}

RECURSIVE SumSucceeded(_)
SumSucceeded(ks) ==
    IF ks = {} THEN 0
    ELSE LET k == CHOOSE x \in ks : TRUE
         IN  Cardinality(SucceededJobsOf(k)) + SumSucceeded(ks \ {k})

\* C9: the submodule summary has exactly one row per group (module_name,
\* module_number, main_module_name) with a SUCCEEDED job, whose job_counts is
\* the number of SUCCEEDED jobs of the group, and no other row; the
\* high-level job_counts of a (module_number, main_module_name) pair is the
\* sum over its groups.
C9_SummaryCounts ==
    pc = "done" =>
        /\ \A k \in GroupsWithSucceededJob :
            /\ Cardinality(RowsOfGroup(k)) = 1
            /\ \A r \in RowsOfGroup(k) : r.job_counts = Cardinality(SucceededJobsOf(k))
        /\ \A r \in submodule_summary_df :
            \E k \in GroupsWithSucceededJob : r \in RowsOfGroup(k)
        /\ \A k \in GroupsWithSucceededJob :
            \E h \in highlevel_summary_df :
                /\ h.module_number_x = k.module_number
                /\ h.main_module_name_x = k.main_module_name
                /\ h.job_counts = SumSucceeded({g \in GroupsWithSucceededJob :
                        /\ g.module_number = k.module_number
                        /\ g.main_module_name = k.main_module_name})

----------------------------------------------------------------------------
(* Properties of main, checked under SpecMain.                             *)

\* C4: with a log group and a job table that has a row, main writes the job
\* details and then the summaries, whether the usage table has a row or not.
C4_ReportsWithLogGroup ==
    (/\ Truthy(cloudwatch_log_group_name)
     /\ pc \in {"raised", "summaries", "done"}
     /\ batch_job_details_df # UnboundTable
     /\ Len(batch_job_details_df) > 0)
    => /\ pc # "raised"
       /\ "job_details.csv" \in files
       /\ pc = "done" =>
            {"submodule_summary.csv", "highlevel_summary.csv"} \subseteq files

\* C8: once a list_jobs call has raised, the run is over with that error: no
\* further call is made, no list is returned, describe_jobs is never called
\* and no file is written.
C8_ListErrorPropagates ==
    list_failed =>
        /\ pc = "raised"
        /\ exception = "ClientError"
        /\ raised_in = "get_batch_job_id_list"
        /\ job_idx = 0
        /\ outcomes = <<>>
        /\ describe_response = Unbound
        /\ files = {}

\* list_jobs raised on a continuation page, after ids had been collected.
C8_Witness ==
    /\ list_failed
    /\ pc = "raised"
    /\ nextToken # NoToken
    /\ temp_job_ids # <<>>
    /\ job_id_list # <<>>

----------------------------------------------------------------------------
(* Properties of get_batch_job_id_list against a queue whose jobs change   *)
(* status during the run, checked under SpecListQueue.                     *)

NoDuplicates(s) == \A m, n \in 1..Len(s) : s[m] = s[n] => m = n

\* The jobs that changed status after the first list_jobs call of the run
\* had been answered.
MovedDuringRun == {j \in JobIds : batch_jobs[j].moved_after >= 1}

\* C11: the list that get_batch_job_id_list builds and returns holds each
\* job id at most once, also when jobs move from RUNNING to SUCCEEDED or
\* FAILED between the list_jobs calls: the statuses are listed in the order
\* SUCCEEDED, FAILED, RUNNING, and nothing removes duplicates.
C11_EachJobAtMostOnce == NoDuplicates(job_id_list)

\* The list was returned; it holds a job that was RUNNING when the run began
\* and moved to a final status between two list_jobs calls.
C11_Witness ==
    /\ pc = "list_returned"
    /\ \E j \in MovedDuringRun :
        /\ batch_jobs[j].first_status = "RUNNING"
        /\ batch_jobs[j].status \in {"SUCCEEDED", "FAILED"}
        /\ j \in Range(job_id_list)

\* The jobs created after the cutoff that were in one of the statuses asked
\* for at every moment of the run.
AlwaysListable ==
    {j \in JobIds : /\ Retained(SummaryOf(j))
                    /\ batch_jobs[j].first_status \in Range(status_needed)}

\* C12: every job that was created after the cutoff and is SUCCEEDED, FAILED
\* or RUNNING at every moment of the run is in the returned list, also when
\* it moves from RUNNING to SUCCEEDED or FAILED between the listing of one
\* status and the listing of the next.
C12_ListableJobsAreReturned ==
    pc = "list_returned" => AlwaysListable \subseteq Range(job_id_list)

====
